---------------------------- MODULE Spec2Model ----------------------------
(***************************************************************************)
(* Community 8-Ball server (src/src/server/index.ts): the three express    *)
(* handlers POST /api/ask, GET /api/subreddit and GET /api/history over a  *)
(* Redis-like key-value store, an external community directory and a       *)
(* millisecond clock.                                                      *)
(*                                                                         *)
(* Strings are TLA+ strings: keys, answers and stored JSON texts are built *)
(* by concatenation and taken apart again character by character.  A       *)
(* JavaScript value that may be undefined is <<>> (undefined) or <<v>>.    *)
(* Every await of a handler is a suspension point: the action named after  *)
(* the awaited call applies the call's effect (or its failure) and then    *)
(* runs the handler's synchronous code up to the next await.               *)
(***************************************************************************)
EXTENDS Integers, Sequences, FiniteSets, TLC

(***************************************************************************)
(* Bounds of the model.                                                    *)
(***************************************************************************)
\* number of clock advances in one behaviour
MaxTicks == 1
\* Math.random() is drawn from {0, (RandRes-1)/RandRes}, the least and the
\* greatest value at a resolution of 1/RandRes
RandRes == 64
\* Date.now() at the start of a behaviour
Clock0 == 20
\* a key scan starts at one of the first MaxScanStarts keys, in either direction
MaxScanStarts == 2
\* calls of askQuestion that can be unfinished at once
MaxOpenAsks == 2

(***************************************************************************)
(* Program constants.                                                      *)
(***************************************************************************)
CACHE_TTL == 3600
HISTORY_TTL == 86400
HISTORY_LIMIT == 10
GENERIC_MIX == 5
SUBS_LARGE == 100000
SUBS_SMALL == 1000
MsPerSecond == 1000

(***************************************************************************)
(* JavaScript values.                                                      *)
(***************************************************************************)
undefined == <<>>
Some(v) == <<v>>
Val(o) == o[1]
\* !x for an optional string: undefined and "" are falsy
Falsy(o) == o = undefined \/ Val(o) = ""
\* !x / if (x) for an optional number: undefined and 0 are falsy
FalsyNum(o) == o = undefined \/ Val(o) = 0

Range(s) == {s[i] : i \in 1..Len(s)}
Ch(s, i) == SubSeq(s, i, i)

IsWhitespace(c) == c \in {" ", "\t", "\n", "\r", "\f"}

RECURSIVE TrimStart(_)
TrimStart(s) ==
    IF s # "" /\ IsWhitespace(Head(s)) THEN TrimStart(Tail(s)) ELSE s

RECURSIVE TrimEnd(_)
TrimEnd(s) ==
    IF s # "" /\ IsWhitespace(Ch(s, Len(s)))
    THEN TrimEnd(SubSeq(s, 1, Len(s) - 1))
    ELSE s

\* String.prototype.trim
Trim(s) == TrimEnd(TrimStart(s))

IsDigit(c) == c \in {"0", "1", "2", "3", "4", "5", "6", "7", "8", "9"}

DigitVal(c) ==
    CASE c = "0" -> 0 [] c = "1" -> 1 [] c = "2" -> 2 [] c = "3" -> 3
      [] c = "4" -> 4 [] c = "5" -> 5 [] c = "6" -> 6 [] c = "7" -> 7
      [] c = "8" -> 8 [] c = "9" -> 9

\* the value of parseInt on a string with no leading digits
NaN == "NaN"

RECURSIVE ParseDigits(_, _, _)
ParseDigits(s, i, acc) ==
    IF i <= Len(s) /\ IsDigit(Ch(s, i))
    THEN ParseDigits(s, i + 1, acc * 10 + DigitVal(Ch(s, i)))
    ELSE acc

\* parseInt(s): leading whitespace skipped, then the longest run of decimal
\* digits; NaN when there is none (no key of this program carries a sign)
ParseInt(s) ==
    LET t == TrimStart(s)
    IN  IF t # "" /\ IsDigit(Head(t)) THEN ParseDigits(t, 1, 0) ELSE NaN

RECURSIVE LastIndexOf(_, _, _)
LastIndexOf(s, c, i) ==
    IF i = 0 THEN 0
    ELSE IF Ch(s, i) = c THEN i
    ELSE LastIndexOf(s, c, i - 1)

\* key.split(':').pop(): the text after the last ':' (all of it when none)
LastSegment(s) == SubSeq(s, LastIndexOf(s, ":", Len(s)) + 1, Len(s))

\* parseInt(key.split(':').pop() || '0')
KeyTimestamp(key) ==
    LET seg == LastSegment(key)
    IN  ParseInt(IF seg = "" THEN "0" ELSE seg)

\* a pattern "<literal>*" matches the keys that start with the literal
GlobMatch(pattern, key) ==
    LET lit == SubSeq(pattern, 1, Len(pattern) - 1)
    IN  /\ Len(key) >= Len(lit)
        /\ SubSeq(key, 1, Len(lit)) = lit


(***************************************************************************)
(* JSON.stringify and JSON.parse.  The texts this program stores hold no   *)
(* insignificant whitespace, and the only text it parses back is the       *)
(* Answer Record, an object whose members are strings; JsonParse returns   *)
(* ok = FALSE (JSON.parse throws) for a text that is no such object.       *)
(***************************************************************************)
Quote == "\""
Backslash == "\\"

JsonEscapeChar(c) ==
    CASE c = Quote -> Backslash \o Quote
      [] c = Backslash -> Backslash \o Backslash
      [] c = "\n" -> Backslash \o "n"
      [] c = "\t" -> Backslash \o "t"
      [] c = "\r" -> Backslash \o "r"
      [] c = "\f" -> Backslash \o "f"
      [] OTHER -> c

RECURSIVE JsonEscape(_)
JsonEscape(s) ==
    IF s = "" THEN "" ELSE JsonEscapeChar(Head(s)) \o JsonEscape(Tail(s))

JsonString(s) == Quote \o JsonEscape(s) \o Quote

JsonBool(b) == IF b THEN "true" ELSE "false"

\* the members whose value is not undefined, each as "name":text
RECURSIVE JsonMembers(_, _)
JsonMembers(members, first) ==
    IF members = <<>> THEN ""
    ELSE LET m == Head(members)
         IN  IF m[2] = undefined
             THEN JsonMembers(Tail(members), first)
             ELSE (IF first THEN "" ELSE ",")
                  \o JsonString(m[1]) \o ":" \o Val(m[2])
                  \o JsonMembers(Tail(members), FALSE)

\* JSON.stringify of an object: members is <<name, undefined or Some(text)>>
JsonObject(members) == "{" \o JsonMembers(members, TRUE) \o "}"

RECURSIVE JsonElements(_, _)
JsonElements(texts, first) ==
    IF texts = <<>> THEN ""
    ELSE (IF first THEN "" ELSE ",") \o Head(texts)
         \o JsonElements(Tail(texts), FALSE)

JsonArray(texts) == "[" \o JsonElements(texts, TRUE) \o "]"

OptString(o) == IF o = undefined THEN undefined ELSE Some(JsonString(Val(o)))
OptNumber(o) == IF o = undefined THEN undefined ELSE Some(ToString(Val(o)))

JsonUnescapeChar(c) ==
    CASE c = "n" -> "\n" [] c = "t" -> "\t" [] c = "r" -> "\r"
      [] c = "f" -> "\f" [] OTHER -> c

\* the string literal whose opening quote is at i - 1
RECURSIVE JsonScanString(_, _, _)
JsonScanString(s, i, acc) ==
    IF i > Len(s) THEN [ok |-> FALSE, val |-> "", next |-> i]
    ELSE IF Ch(s, i) = Quote THEN [ok |-> TRUE, val |-> acc, next |-> i + 1]
    ELSE IF Ch(s, i) = Backslash
         THEN IF i + 1 > Len(s)
                 \/ Ch(s, i + 1) \notin {Quote, Backslash, "/", "n", "t", "r", "f"}
              THEN [ok |-> FALSE, val |-> "", next |-> i]
              ELSE JsonScanString(s, i + 2, acc \o JsonUnescapeChar(Ch(s, i + 1)))
    ELSE JsonScanString(s, i + 1, acc \o Ch(s, i))

JsonReadString(s, i) ==
    IF i <= Len(s) /\ Ch(s, i) = Quote
    THEN JsonScanString(s, i + 1, "")
    ELSE [ok |-> FALSE, val |-> "", next |-> i]

RECURSIVE JsonReadMembers(_, _, _)
JsonReadMembers(s, i, acc) ==
    LET name == JsonReadString(s, i)
        value == JsonReadString(s, name.next + 1)
        after == value.next
    IN  IF ~name.ok \/ name.next > Len(s) \/ Ch(s, name.next) # ":" \/ ~value.ok
        THEN [ok |-> FALSE, members |-> <<>>]
        ELSE IF after = Len(s) /\ Ch(s, after) = "}"
        THEN [ok |-> TRUE, members |-> Append(acc, <<name.val, value.val>>)]
        ELSE IF after < Len(s) /\ Ch(s, after) = ","
        THEN JsonReadMembers(s, after + 1, Append(acc, <<name.val, value.val>>))
        ELSE [ok |-> FALSE, members |-> <<>>]

JsonParse(s) ==
    IF s = "{}" THEN [ok |-> TRUE, members |-> <<>>]
    ELSE IF Len(s) >= 2 /\ Head(s) = "{"
    THEN JsonReadMembers(s, 2, <<>>)
    ELSE [ok |-> FALSE, members |-> <<>>]

\* parsed.<name>: the last member of that name, undefined when there is none
RECURSIVE JsonGet(_, _)
JsonGet(members, name) ==
    IF members = <<>> THEN undefined
    ELSE LET m == members[Len(members)]
         IN  IF m[1] = name THEN Some(m[2])
             ELSE JsonGet(SubSeq(members, 1, Len(members) - 1), name)


(***************************************************************************)
(* The answer pools.                                                       *)
(***************************************************************************)
GENERIC_ANSWERS ==
    << "It is certain",
       "Reply hazy, try again",
       "Don't count on it",
       "It is decidedly so",
       "Ask again later",
       "My reply is no",
       "Without a doubt",
       "Better not tell you now",
       "My sources say no",
       "Yes definitely",
       "Cannot predict now",
       "Outlook not so good",
       "You may rely on it",
       "Concentrate and ask again",
       "Very doubtful",
       "As I see it, yes",
       "Most likely",
       "Outlook good",
       "Yes",
       "Signs point to yes" >>

\* the name-templated phrases, each as <<text before the name, text after>>
CommunityTemplates ==
    << <<"The mods of r/", " say yes">>,
       <<"According to r/", " rules, absolutely">>,
       <<"The r/", " community believes so">>,
       <<"Ask the r/", " daily thread">>,
       <<"Check the r/", " wiki first">>,
       <<"The r/", " hivemind says no">>,
       <<"Post it in r/", " and find out">>,
       <<"The r/", " automod says maybe">>,
       <<"r/", " veterans would agree">>,
       <<"That's against r/", " guidelines">>,
       <<"r/", " would upvote this">>,
       <<"The r/", " FAQ has your answer">>,
       <<"Ask r/", " in the weekly thread">>,
       <<"r/", " mods are watching...">>,
       <<"The spirit of r/", " says yes">>,
       <<"The r/", " oracle has spoken: Yes!">>,
       <<"r/", "'s collective wisdom says no">>,
       <<"The ancient scrolls of r/", " confirm it">>,
       <<"r/", "'s magic 8-ball network agrees">>,
       <<"The r/", " prophecy foretells: Maybe">>,
       <<"r/", "'s crystal ball is cloudy...">>,
       <<"The r/", " fortune cookies say yes">>,
       <<"r/", "'s tarot cards reveal: No">>,
       <<"The r/", " tea leaves suggest: Definitely">>,
       <<"r/", "'s cosmic energy says: Ask again">>,
       <<"The r/", " universe aligns: Absolutely">>,
       <<"r/", "'s mystical forces say: Doubtful">>,
       <<"The r/", " spirits whisper: Yes">>,
       <<"r/", "'s digital divination: Unclear">>,
       <<"The r/", " algorithm predicts: Likely">> >>

\* Math.random() as the fraction n / RandRes
RandomNumerators == {0, RandRes - 1}

\* Math.floor(Math.random() * n) for the draw rnd / RandRes
RandomBelow(rnd, n) == (rnd * n) \div RandRes

\* a plausible slip: the thresholds are compared with >= instead of >
SubscriberAnswers_Inclusive(name, subscribers) ==
    IF FalsyNum(subscribers) THEN <<>>
    ELSE LET k == ToString(Val(subscribers) \div 1000)
         IN  IF Val(subscribers) >= SUBS_LARGE
             THEN << "With " \o k \o "k members, r/" \o name \o " says yes",
                     k \o "k r/" \o name \o " users can't be wrong" >>
             ELSE IF Val(subscribers) >= SUBS_SMALL
             THEN << "All " \o k \o "k r/" \o name \o " members agree" >>
             ELSE <<>>

\* the phrases added for the subscriber count
SubscriberAnswers(name, subscribers) ==
    IF FalsyNum(subscribers) THEN <<>>
    ELSE LET k == ToString(Val(subscribers) \div 1000)
         IN  IF Val(subscribers) > SUBS_LARGE
             THEN << "With " \o k \o "k members, r/" \o name \o " says yes",
                     k \o "k r/" \o name \o " users can't be wrong" >>
             ELSE IF Val(subscribers) > SUBS_SMALL
             THEN << "All " \o k \o "k r/" \o name \o " members agree" >>
             ELSE <<>>

\* a plausible slip: the rule number is the zero-based index
RuleAnswers_ZeroBased(name, rules, rnd) ==
    IF rules # undefined /\ Len(Val(rules)) > 0
    THEN << "Check rule " \o ToString(RandomBelow(rnd, Len(Val(rules))))
                \o " of r/" \o name,
            "The r/" \o name \o " rules are clear on this" >>
    ELSE <<>>

\* the phrases added for the rule list; rnd is the draw of Math.random()
RuleAnswers(name, rules, rnd) ==
    IF rules # undefined /\ Len(Val(rules)) > 0
    THEN << "Check rule " \o ToString(RandomBelow(rnd, Len(Val(rules))) + 1)
                \o " of r/" \o name,
            "The r/" \o name \o " rules are clear on this" >>
    ELSE <<>>

\* a plausible slip: the generic phrases are put in front of the community ones
generateCommunityAnswers_GenericFirst(subredditInfo, rnd) ==
    LET name == subredditInfo.name
        communityAnswers ==
            [i \in 1..Len(CommunityTemplates) |->
                CommunityTemplates[i][1] \o name \o CommunityTemplates[i][2]]
    IN  SubSeq(GENERIC_ANSWERS, 1, GENERIC_MIX)
        \o communityAnswers
        \o SubscriberAnswers(name, subredditInfo.subscribers)
        \o RuleAnswers(name, subredditInfo.rules, rnd)

generateCommunityAnswers(subredditInfo, rnd) ==
    LET name == subredditInfo.name
        communityAnswers ==
            [i \in 1..Len(CommunityTemplates) |->
                CommunityTemplates[i][1] \o name \o CommunityTemplates[i][2]]
    IN  communityAnswers
        \o SubscriberAnswers(name, subredditInfo.subscribers)
        \o RuleAnswers(name, subredditInfo.rules, rnd)
        \o SubSeq(GENERIC_ANSWERS, 1, GENERIC_MIX)

(***************************************************************************)
(* The external directory: what getCurrentSubreddit and getSubredditRules  *)
(* can return, and the SubredditInfo getSubredditInfo builds from them.    *)
(***************************************************************************)
DirectorySubreddits ==
    { [name |-> "magic8", displayName |-> undefined,
       description |-> Some("Ask away"), subscribers |-> Some(150000),
       userFlairEnabled |-> Some(TRUE)] }

DirectoryRules ==
    { Some(<< [shortName |-> undefined, violationReason |-> Some("Unkind"),
               description |-> undefined] >>) }

\* a || b for optional strings
OrElse(a, b) == IF Falsy(a) THEN b ELSE a

NormalizeRule(rule) ==
    [shortName |-> Val(OrElse(rule.shortName,
                              OrElse(rule.violationReason, Some("Rule")))),
     description |-> Val(OrElse(rule.description, Some("")))]

\* the object getSubredditInfo returns when both lookups resolved
BuildSubredditInfo(subreddit, rules) ==
    [name |-> subreddit.name,
     displayName |-> Val(OrElse(subreddit.displayName, Some(subreddit.name))),
     description |-> subreddit.description,
     subscribers |-> subreddit.subscribers,
     rules |-> IF rules = undefined THEN Some(<<>>)
               ELSE Some([i \in 1..Len(Val(rules)) |-> NormalizeRule(Val(rules)[i])]),
     flairEnabled |-> IF subreddit.userFlairEnabled = undefined THEN FALSE
                      ELSE Val(subreddit.userFlairEnabled)]

RuleJson(rule) ==
    JsonObject(<< <<"shortName", Some(JsonString(rule.shortName))>>,
                  <<"description", Some(JsonString(rule.description))>> >>)

\* JSON.stringify(subredditInfo)
SubredditInfoJson(info) ==
    JsonObject(<< <<"name", Some(JsonString(info.name))>>,
                  <<"displayName", Some(JsonString(info.displayName))>>,
                  <<"description", OptString(info.description)>>,
                  <<"subscribers", OptNumber(info.subscribers)>>,
                  <<"rules", Some(JsonArray([i \in 1..Len(Val(info.rules)) |->
                                                RuleJson(Val(info.rules)[i])]))>>,
                  <<"flairEnabled", Some(JsonBool(info.flairEnabled))>> >>)

\* a plausible slip: the question is stored in the answer member too
AnswerRecordJson_QuestionTwice(question, answer, subreddit) ==
    JsonObject(<< <<"question", Some(JsonString(question))>>,
                  <<"answer", Some(JsonString(question))>>,
                  <<"subreddit", OptString(subreddit)>> >>)

\* JSON.stringify({ question, answer, subreddit })
AnswerRecordJson(question, answer, subreddit) ==
    JsonObject(<< <<"question", Some(JsonString(question))>>,
                  <<"answer", Some(JsonString(answer))>>,
                  <<"subreddit", OptString(subreddit)>> >>)

\* subredditInfo?.name
InfoName(info) == IF info = undefined THEN undefined ELSE Some(Val(info).name)

(***************************************************************************)
(* Keys.                                                                   *)
(***************************************************************************)
SubredditKey(name) == "subreddit_info:" \o name
QuestionKey(postId, userId, now) ==
    "question:" \o postId \o ":" \o userId \o ":" \o ToString(now)
AnswerKey(postId, userId, now) ==
    "answer:" \o postId \o ":" \o userId \o ":" \o ToString(now)
\* a plausible slip: the pattern leaves the user id out
HistoryPattern_AnyUser(postId, userId) == "answer:" \o postId \o ":*"

HistoryPattern(postId, userId) ==
    "answer:" \o postId \o ":" \o userId \o ":*"


(***************************************************************************)
(* The key-value store: key |-> [val, exp], exp = <<>> (no TTL) or <<t>>   *)
(* (the key is gone once the clock reaches t).                             *)
(***************************************************************************)
\* redis.set(key, val): creates or overwrites the key and drops its TTL
StoreSet(st, key, val) ==
    [k \in DOMAIN st \cup {key} |->
        IF k = key THEN [val |-> val, exp |-> <<>>] ELSE st[k]]

\* redis.expire(key, seconds) at clock t: no effect on a missing key
StoreExpire(st, key, seconds, t) ==
    IF key \in DOMAIN st
    THEN [st EXCEPT ![key].exp = <<t + seconds * MsPerSecond>>]
    ELSE st

\* redis.get(key): undefined for a missing key
StoreGet(st, key) == IF key \in DOMAIN st THEN Some(st[key].val) ELSE undefined

\* the keys redis.keys(pattern) enumerates
StoreKeys(st, pattern) == {k \in DOMAIN st : GlobMatch(pattern, k)}

\* the store at clock t: the keys whose TTL has run out are gone
StorePurge(st, t) ==
    [k \in {x \in DOMAIN st : st[x].exp = <<>> \/ st[x].exp[1] > t} |-> st[k]]

\* the keys of S by ascending key timestamp
RECURSIVE Ascending(_)
Ascending(S) ==
    IF S = {} THEN <<>>
    ELSE LET m == CHOOSE k \in S :
                    \A o \in S : KeyTimestamp(k) <= KeyTimestamp(o)
         IN  <<m>> \o Ascending(S \ {m})

Reverse(s) == [i \in 1..Len(s) |-> s[Len(s) + 1 - i]]
Rotate(s, n) == SubSeq(s, n + 1, Len(s)) \o SubSeq(s, 1, n)

Min(a, b) == IF a <= b THEN a ELSE b

\* The order of a key scan is not specified.  The enumerations modelled are
\* cyclic ones: by ascending or by descending timestamp, starting at one of
\* the first MaxScanStarts keys (every order of up to MaxScanStarts keys).
ScanOrders(S) ==
    LET asc == Ascending(S)
        starts == 0..(Min(Len(asc), MaxScanStarts) - 1)
    IN  IF S = {} THEN {<<>>}
        ELSE {Rotate(asc, n) : n \in starts}
             \cup {Rotate(Reverse(asc), n) : n \in starts}

\* a plausible slip: the loop runs over all the keys
SliceLast_All(s, n) == s

\* keys.slice(-n)
SliceLast(s, n) == IF Len(s) <= n THEN s ELSE SubSeq(s, Len(s) - n + 1, Len(s))

\* history.sort((a, b) => b.timestamp - a.timestamp): stable, newest first
RECURSIVE InsertDesc(_, _)
InsertDesc(sorted, e) ==
    IF sorted = <<>> THEN <<e>>
    ELSE IF Head(sorted).timestamp >= e.timestamp
         THEN <<Head(sorted)>> \o InsertDesc(Tail(sorted), e)
         ELSE <<e>> \o sorted

\* a plausible slip: the entries are returned in the order they were read
SortDesc_Unsorted(s) == s

RECURSIVE SortDesc(_)
SortDesc(s) ==
    IF s = <<>> THEN <<>>
    ELSE InsertDesc(SortDesc(SubSeq(s, 1, Len(s) - 1)), s[Len(s)])

(***************************************************************************)
(* State.                                                                  *)
(***************************************************************************)
VARIABLES
    store,      \* the key-value store
    now,        \* Date.now(), in milliseconds
    req,        \* the request running in each slot, with its local variables
    ticks,      \* clock advances so far
    ui          \* the state of the client's Game component

vars == <<store, now, req, ticks, ui>>

\* two requests can be in flight at once
Slots == {1, 2}

PostIds == {undefined, Some("t3_a")}
UserIds == {undefined, Some("t2_u"), Some("t2_v")}
Questions == {undefined, Some(""), Some(" \t"), Some(" Will it rain? ")}

\* the clock advances by a millisecond, or to just past the retention window
ClockSteps == {1, HISTORY_TTL * MsPerSecond + 1}

Idle ==
    [kind |-> "none", pc |-> "idle",
     postId |-> undefined, userId |-> undefined, question |-> undefined,
     subredditInfo |-> undefined,
     availableAnswers |-> <<>>, subredditKey |-> "", questionKey |-> "",
     answerKey |-> "", answer |-> "", keys |-> <<>>, idx |-> 0,
     history |-> <<>>, response |-> undefined,
     \* not program state: the calls that have returned or thrown (the two
     \* lookups of getSubredditInfo as one call), whether a cache entry of
     \* the community was in the store when getSubredditInfo ran, and
     \* whether another request was in flight during this one, and the
     \* number of responses sent
     log |-> <<>>, cacheFresh |-> FALSE, overlapped |-> FALSE, sent |-> 0]

ErrorResponse(code, message) ==
    [code |-> code, status |-> "error", message |-> Some(message),
     answer |-> undefined, subreddit |-> undefined, history |-> undefined]

SuccessResponse(answer, subreddit, history) ==
    [code |-> 200, status |-> "success", message |-> undefined,
     answer |-> answer, subreddit |-> subreddit, history |-> history]

InFlight(r) == req[r].pc \notin {"idle", "done"}

\* res.json(...) / res.status(...).json(...): the request ends
Respond(rq, response) ==
    [rq EXCEPT !.pc = "done", !.response = Some(response), !.sent = @ + 1]

\* the call on key has returned (ok) or thrown
Logged(rq, call, key, ok) ==
    [rq EXCEPT !.log = Append(@, [call |-> call, key |-> key, ok |-> ok])]


\* a request comes in on the lowest free slot; each slot serves one request
CanBegin(r) ==
    /\ req[r].pc = "idle"
    /\ \A o \in Slots : o < r => req[o].pc # "idle"

Incoming(kind, postId, userId, question) ==
    [Idle EXCEPT !.kind = kind, !.postId = postId, !.userId = userId,
                 !.question = question]

\* slot r takes the request rq; a request that suspends overlaps the others
\* in flight
Begun(r, rq) ==
    [o \in Slots |->
        IF o = r
        THEN [rq EXCEPT !.overlapped =
                  rq.pc # "done" /\ \E x \in Slots \ {r} : InFlight(x)]
        ELSE IF rq.pc # "done" /\ InFlight(o)
        THEN [req[o] EXCEPT !.overlapped = TRUE]
        ELSE req[o]]

\* array[i], undefined outside the array
ArrayAt(array, i) ==
    IF i >= 0 /\ i < Len(array) THEN Some(array[i + 1]) ELSE undefined

(***************************************************************************)
(* getSubredditInfo, shared by POST /api/ask and GET /api/subreddit, and   *)
(* what each handler does with its result up to its next await.            *)
(***************************************************************************)
\* a plausible slip: the catch answers with the status of a rejection
AskCatch_BadRequest(rq) ==
    Respond(rq, ErrorResponse(400,
        "Internal server error while consulting the Magic 8-Ball"))

AskCatch(rq) ==
    Respond(rq, ErrorResponse(500,
        "Internal server error while consulting the Magic 8-Ball"))

\* a plausible slip: the community pool is built but availableAnswers is never
\* reassigned
AskEnriched_KeepsGeneric(rq, info, rnd, t) ==
    IF info # undefined
    THEN [rq EXCEPT !.subredditInfo = info,
                    !.availableAnswers = GENERIC_ANSWERS,
                    !.subredditKey = SubredditKey(Val(info).name),
                    !.pc = "setCache"]
    ELSE [rq EXCEPT !.subredditInfo = undefined,
                    !.availableAnswers = GENERIC_ANSWERS,
                    !.questionKey = QuestionKey(Val(rq.postId), Val(rq.userId), t),
                    !.pc = "setQuestion"]

\* a plausible slip: availableAnswers starts empty instead of as the generic
\* pool
AskEnriched_NoFallback(rq, info, rnd, t) ==
    IF info # undefined
    THEN [rq EXCEPT !.subredditInfo = info,
                    !.availableAnswers = generateCommunityAnswers(Val(info), rnd),
                    !.subredditKey = SubredditKey(Val(info).name),
                    !.pc = "setCache"]
    ELSE [rq EXCEPT !.subredditInfo = undefined,
                    !.availableAnswers = <<>>,
                    !.questionKey = QuestionKey(Val(rq.postId), Val(rq.userId), t),
                    !.pc = "setQuestion"]

\* POST /api/ask once getSubredditInfo has returned info; rnd is the draw of
\* generateCommunityAnswers and t the clock
AskEnriched(rq, info, rnd, t) ==
    IF info # undefined
    THEN [rq EXCEPT !.subredditInfo = info,
                    !.availableAnswers = generateCommunityAnswers(Val(info), rnd),
                    !.subredditKey = SubredditKey(Val(info).name),
                    !.pc = "setCache"]
    ELSE [rq EXCEPT !.subredditInfo = undefined,
                    !.availableAnswers = GENERIC_ANSWERS,
                    !.questionKey = QuestionKey(Val(rq.postId), Val(rq.userId), t),
                    !.pc = "setQuestion"]

\* GET /api/subreddit once getSubredditInfo has returned info
SubredditResolved(rq, info) ==
    Respond([rq EXCEPT !.subredditInfo = info],
            SuccessResponse(undefined, info, undefined))

AfterSubredditInfo(rq, info, rnd, t) ==
    IF rq.kind = "ask" THEN AskEnriched(rq, info, rnd, t)
    ELSE SubredditResolved(rq, info)

\* a plausible slip: getSubredditInfo without its try/catch, so that a lookup
\* that throws reaches the catch of the calling handler
SubredditInfoCatch_Rethrows(rq, rnd, t) ==
    IF rq.kind = "ask" THEN AskCatch(rq)
    ELSE Respond(rq, ErrorResponse(500, "Failed to get subreddit info"))

\* the catch of getSubredditInfo: the error is logged and null is returned
SubredditInfoCatch(rq, rnd, t) == AfterSubredditInfo(rq, undefined, rnd, t)

\* getSubredditInfo: await context.reddit.getCurrentSubreddit(), then await
\* context.reddit.getSubredditRules(subreddit.name); either lookup may throw,
\* and the catch returns null.  Neither lookup reads or writes the store or
\* the clock, so the two awaits are taken in one step.
GetSubredditInfo(r) ==
    /\ req[r].pc = "getSubredditInfo"
    /\ \E outcome \in {"subreddit throws", "rules throw", "resolved"},
          sub \in DirectorySubreddits, rules \in DirectoryRules,
          rnd \in RandomNumerators :
        LET rq == Logged([req[r] EXCEPT !.cacheFresh =
                              SubredditKey(sub.name) \in DOMAIN store],
                         "getSubredditInfo", "", outcome = "resolved")
        IN  req' = [req EXCEPT ![r] =
                CASE outcome = "subreddit throws" ->
                        SubredditInfoCatch(rq, rnd, now)
                  [] outcome = "rules throw" ->
                        SubredditInfoCatch(rq, rnd, now)
                  [] outcome = "resolved" ->
                        AfterSubredditInfo(rq,
                            Some(BuildSubredditInfo(sub, rules)), rnd, now)]
    /\ UNCHANGED <<store, now, ticks, ui>>

(***************************************************************************)
(* POST /api/ask                                                           *)
(***************************************************************************)
\* a plausible slip: the question is tested without trimming it
AskPrecondition_NoTrim(postId, userId, question) ==
    IF Falsy(postId) THEN Some("postId is required")
    ELSE IF Falsy(userId) THEN Some("Must be logged in")
    ELSE IF Falsy(question) THEN Some("Question is required")
    ELSE undefined

\* the message of the 400 response, undefined when the request is accepted
AskPrecondition(postId, userId, question) ==
    IF Falsy(postId) THEN Some("postId is required")
    ELSE IF Falsy(userId) THEN Some("Must be logged in")
    ELSE IF Falsy(question) \/ Len(Trim(Val(question))) = 0
    THEN Some("Question is required")
    ELSE undefined

AskBegin(r) ==
    /\ CanBegin(r)
    /\ \E postId \in PostIds, userId \in UserIds, question \in Questions :
        LET rq == Incoming("ask", postId, userId, question)
            rejected == AskPrecondition(postId, userId, question)
        IN  req' = Begun(r,
                IF rejected # undefined
                THEN Respond(rq, ErrorResponse(400, Val(rejected)))
                ELSE [rq EXCEPT !.pc = "getSubredditInfo"])
    /\ UNCHANGED <<store, now, ticks, ui>>

\* await redis.set(subredditKey, JSON.stringify(subredditInfo))
AskSetCache(r) ==
    /\ req[r].pc = "setCache"
    /\ \E ok \in BOOLEAN :
        /\ LET rq == Logged(req[r], "set", req[r].subredditKey, ok)
           IN  IF ok
               THEN /\ store' = StoreSet(store, rq.subredditKey,
                                    SubredditInfoJson(Val(rq.subredditInfo)))
                    /\ req' = [req EXCEPT ![r] = [rq EXCEPT !.pc = "expireCache"]]
               ELSE /\ store' = store
                    /\ req' = [req EXCEPT ![r] = AskCatch(rq)]
    /\ UNCHANGED <<now, ticks, ui>>

\* await redis.expire(subredditKey, 3600)
AskExpireCache(r) ==
    /\ req[r].pc = "expireCache"
    /\ \E ok \in BOOLEAN :
        /\ LET rq == Logged(req[r], "expire", req[r].subredditKey, ok)
           IN  IF ok
               THEN /\ store' = StoreExpire(store, rq.subredditKey, CACHE_TTL, now)
                    /\ req' = [req EXCEPT ![r] =
                           [rq EXCEPT !.questionKey =
                                          QuestionKey(Val(rq.postId),
                                                      Val(rq.userId), now),
                                      !.pc = "setQuestion"]]
               ELSE /\ store' = store
                    /\ req' = [req EXCEPT ![r] = AskCatch(rq)]
    /\ UNCHANGED <<now, ticks, ui>>

\* await redis.set(questionKey, question.trim())
AskSetQuestion(r) ==
    /\ req[r].pc = "setQuestion"
    /\ \E ok \in BOOLEAN :
        /\ LET rq == Logged(req[r], "set", req[r].questionKey, ok)
           IN  IF ok
               THEN /\ store' = StoreSet(store, rq.questionKey,
                                         Trim(Val(rq.question)))
                    /\ req' = [req EXCEPT ![r] = [rq EXCEPT !.pc = "expireQuestion"]]
               ELSE /\ store' = store
                    /\ req' = [req EXCEPT ![r] = AskCatch(rq)]
    /\ UNCHANGED <<now, ticks, ui>>

\* a plausible slip: the draw ranges over one index too many
RandomIndex_OneTooMany(rnd, availableAnswers) ==
    RandomBelow(rnd, Len(availableAnswers) + 1)

\* Math.floor(Math.random() * availableAnswers.length)
RandomIndex(rnd, availableAnswers) == RandomBelow(rnd, Len(availableAnswers))

\* the handler from the random draw to its next await: the answer is chosen
\* and the Answer Record's key is computed from the clock t
AskSelected(rq, rnd, t) ==
    LET answer == ArrayAt(rq.availableAnswers,
                          RandomIndex(rnd, rq.availableAnswers))
    IN  IF Falsy(answer)
        THEN Respond(rq, ErrorResponse(500, "Failed to get answer"))
        ELSE [rq EXCEPT !.answer = Val(answer),
                        !.answerKey = AnswerKey(Val(rq.postId), Val(rq.userId), t),
                        !.pc = "setAnswer"]

\* await redis.expire(questionKey, 86400)
AskExpireQuestion(r) ==
    /\ req[r].pc = "expireQuestion"
    /\ \E ok \in BOOLEAN, rnd \in RandomNumerators :
        /\ LET rq == Logged(req[r], "expire", req[r].questionKey, ok)
           IN  IF ok
               THEN /\ store' = StoreExpire(store, rq.questionKey, HISTORY_TTL, now)
                    /\ req' = [req EXCEPT ![r] = AskSelected(rq, rnd, now)]
               ELSE /\ store' = store
                    /\ req' = [req EXCEPT ![r] = AskCatch(rq)]
    /\ UNCHANGED <<now, ticks, ui>>

\* await redis.set(answerKey, JSON.stringify({ question, answer, subreddit }))
AskSetAnswer(r) ==
    /\ req[r].pc = "setAnswer"
    /\ \E ok \in BOOLEAN :
        /\ LET rq == Logged(req[r], "set", req[r].answerKey, ok)
           IN  IF ok
               THEN /\ store' = StoreSet(store, rq.answerKey,
                                    AnswerRecordJson(Trim(Val(rq.question)),
                                                     rq.answer,
                                                     InfoName(rq.subredditInfo)))
                    /\ req' = [req EXCEPT ![r] = [rq EXCEPT !.pc = "expireAnswer"]]
               ELSE /\ store' = store
                    /\ req' = [req EXCEPT ![r] = AskCatch(rq)]
    /\ UNCHANGED <<now, ticks, ui>>

\* await redis.expire(answerKey, 86400), then res.json({ status: 'success' ... })
AskExpireAnswer(r) ==
    /\ req[r].pc = "expireAnswer"
    /\ \E ok \in BOOLEAN :
        /\ LET rq == Logged(req[r], "expire", req[r].answerKey, ok)
           IN  IF ok
               THEN /\ store' = StoreExpire(store, rq.answerKey, HISTORY_TTL, now)
                    /\ req' = [req EXCEPT ![r] =
                           Respond(rq, SuccessResponse(Some(rq.answer),
                                           InfoName(rq.subredditInfo), undefined))]
               ELSE /\ store' = store
                    /\ req' = [req EXCEPT ![r] = AskCatch(rq)]
    /\ UNCHANGED <<now, ticks, ui>>


(***************************************************************************)
(* GET /api/subreddit                                                      *)
(***************************************************************************)
SubredditBegin(r) ==
    /\ CanBegin(r)
    /\ \E postId \in PostIds :
        LET rq == Incoming("subreddit", postId, undefined, undefined)
        IN  req' = Begun(r,
                IF Falsy(postId)
                THEN Respond(rq, ErrorResponse(400, "postId is required"))
                ELSE [rq EXCEPT !.pc = "getSubredditInfo"])
    /\ UNCHANGED <<store, now, ticks, ui>>

(***************************************************************************)
(* GET /api/history                                                        *)
(***************************************************************************)
\* a plausible slip: the catch logs the error and sends nothing
HistoryCatch_Silent(rq) == [rq EXCEPT !.pc = "done"]

\* the catch: console.error(...) and the 500 response
HistoryCatch(rq) == Respond(rq, ErrorResponse(500, "Failed to get history"))

\* history.sort(...) and res.json({ status: 'success', history })
HistoryDone(rq) ==
    Respond(rq, SuccessResponse(undefined, undefined, Some(SortDesc(rq.history))))

HistoryBegin(r) ==
    /\ CanBegin(r)
    /\ \E postId \in PostIds, userId \in UserIds :
        LET rq == Incoming("history", postId, userId, undefined)
        IN  req' = Begun(r,
                IF Falsy(postId)
                THEN Respond(rq, ErrorResponse(400, "postId is required"))
                ELSE IF Falsy(userId)
                THEN Respond(rq, ErrorResponse(400, "Must be logged in"))
                ELSE [rq EXCEPT !.pc = "keys"])
    /\ UNCHANGED <<store, now, ticks, ui>>

\* await redis.keys(pattern), then keys.slice(-10) and the first redis.get
HistoryKeys(r) ==
    /\ req[r].pc = "keys"
    /\ \E ok \in BOOLEAN,
          order \in ScanOrders(StoreKeys(store,
                        HistoryPattern(Val(req[r].postId), Val(req[r].userId)))) :
        /\ LET rq == Logged(req[r], "keys",
                            HistoryPattern(Val(req[r].postId), Val(req[r].userId)),
                            ok)
               keys == SliceLast(order, HISTORY_LIMIT)
           IN  req' = [req EXCEPT ![r] =
                   IF ~ok THEN HistoryCatch(rq)
                   ELSE IF keys = <<>> THEN HistoryDone(rq)
                   ELSE [rq EXCEPT !.keys = keys, !.idx = 1, !.pc = "get"]]
    /\ UNCHANGED <<store, now, ticks, ui>>

\* the loop body once redis.get(key) has returned data
HistoryRead(rq, key, data) ==
    IF Falsy(data) THEN rq
    ELSE LET parsed == JsonParse(Val(data))
         IN  IF ~parsed.ok THEN HistoryCatch(rq)
             ELSE [rq EXCEPT !.history = Append(@,
                      [question |-> JsonGet(parsed.members, "question"),
                       answer |-> JsonGet(parsed.members, "answer"),
                       timestamp |-> KeyTimestamp(key)])]

\* a plausible slip: a read renews the TTL of the record it has read
HistoryGet_RenewsTtl(r) ==
    /\ req[r].pc = "get"
    /\ \E ok \in BOOLEAN :
        /\ LET key == req[r].keys[req[r].idx]
               rq == Logged(req[r], "get", key, ok)
               read == HistoryRead(rq, key, StoreGet(store, key))
           IN  /\ req' = [req EXCEPT ![r] =
                       IF ~ok THEN HistoryCatch(rq)
                       ELSE IF read.pc = "done" THEN read
                       ELSE IF rq.idx = Len(rq.keys) THEN HistoryDone(read)
                       ELSE [read EXCEPT !.idx = @ + 1]]
               /\ store' = IF ok THEN StoreExpire(store, key, HISTORY_TTL, now)
                           ELSE store
    /\ UNCHANGED <<now, ticks, ui>>

\* await redis.get(key), the loop body, then the next key or the response
HistoryGet(r) ==
    /\ req[r].pc = "get"
    /\ \E ok \in BOOLEAN :
        /\ LET key == req[r].keys[req[r].idx]
               rq == Logged(req[r], "get", key, ok)
               read == HistoryRead(rq, key, StoreGet(store, key))
           IN  req' = [req EXCEPT ![r] =
                   IF ~ok THEN HistoryCatch(rq)
                   ELSE IF read.pc = "done" THEN read
                   ELSE IF rq.idx = Len(rq.keys) THEN HistoryDone(read)
                   ELSE [read EXCEPT !.idx = @ + 1]]
    /\ UNCHANGED <<store, now, ticks, ui>>

(***************************************************************************)
(* The environment.                                                        *)
(***************************************************************************)
\* the clock advances; the keys whose TTL has run out are gone
Tick ==
    /\ ticks < MaxTicks
    /\ \E step \in ClockSteps :
        /\ now' = now + step
        /\ store' = StorePurge(store, now + step)
    /\ ticks' = ticks + 1
    /\ UNCHANGED <<req, ui>>

(***************************************************************************)
(* The client: the Game component of Game.tsx.  Of its state the question, *)
(* the answer and the three progress flags are kept, and for each call of  *)
(* askQuestion that has not finished, where it stands and whether its      *)
(* rotation interval runs; glow, particles, sounds, rotation angle and the *)
(* recent-questions list take no part in what a call does next.            *)
(***************************************************************************)
FreeCall == [pc |-> "free", rotationInterval |-> FALSE, result |-> ""]

AskCalls == 1..MaxOpenAsks

\* the component after useState(...) of its first render
Mounted ==
    [question |-> "", answer |-> "", isLoading |-> FALSE, isShaking |-> FALSE,
     isRevealing |-> FALSE, calls |-> [a \in AskCalls |-> FreeCall]]

\* what the user types into the input
Typed == {"", " ", "Will it rain?"}

\* how fetch('/api/ask') and response.json() end: the fetch or the decoding
\* throws, or the body is an error or a success response
FetchResults ==
    { [kind |-> "throws", text |-> ""],
      [kind |-> "error", text |-> "Must be logged in"],
      [kind |-> "success", text |-> GENERIC_ANSWERS[1]] }

\* the calls of askQuestion are numbered as they start
NextCall(a) ==
    /\ ui.calls[a].pc = "free"
    /\ \A o \in AskCalls : o < a => ui.calls[o].pc # "free"

\* askQuestion up to its await of fetch('/api/ask')
askQuestion ==
    IF Trim(ui.question) = "" THEN UNCHANGED ui
    ELSE \E a \in AskCalls :
            /\ NextCall(a)
            /\ ui' = [ui EXCEPT !.isLoading = TRUE, !.answer = "",
                                !.isShaking = TRUE,
                                !.calls[a] = [pc |-> "fetch",
                                              rotationInterval |-> TRUE,
                                              result |-> ""]]

\* onChange of the input, which is disabled while isLoading
ChangeQuestion ==
    /\ ~ui.isLoading
    /\ \E q \in Typed : ui' = [ui EXCEPT !.question = q]
    /\ UNCHANGED <<store, now, req, ticks>>

\* handleKeyPress on Enter in the input, which is disabled while isLoading
handleKeyPress ==
    /\ ~ui.isLoading
    /\ IF ~ui.isLoading THEN askQuestion ELSE UNCHANGED ui
    /\ UNCHANGED <<store, now, req, ticks>>

\* onClick of the Ask button, disabled={!question.trim() || isLoading}
ClickAsk ==
    /\ ~(Trim(ui.question) = "" \/ ui.isLoading)
    /\ askQuestion
    /\ UNCHANGED <<store, now, req, ticks>>

\* onClick={askQuestion} of the ball
ClickBall ==
    /\ askQuestion
    /\ UNCHANGED <<store, now, req, ticks>>

\* the call from the end of its awaits to its return: the catch, the error
\* branch, or the first setTimeout
FetchSettles(a) ==
    /\ ui.calls[a].pc = "fetch"
    /\ \E result \in FetchResults :
        ui' = CASE result.kind = "throws" ->
                    [ui EXCEPT !.answer = "Network error, please try again.",
                               !.isShaking = FALSE, !.isLoading = FALSE,
                               !.calls[a] = FreeCall]
                [] result.kind = "error" ->
                    [ui EXCEPT !.answer = "Error: " \o result.text,
                               !.isShaking = FALSE, !.isLoading = FALSE,
                               !.calls[a] = FreeCall]
                [] result.kind = "success" ->
                    [ui EXCEPT !.calls[a].pc = "shaking",
                               !.calls[a].result = result.text]
    /\ UNCHANGED <<store, now, req, ticks>>

\* the callback of setTimeout(..., 3000)
ShakeTimeout(a) ==
    /\ ui.calls[a].pc = "shaking"
    /\ ui' = [ui EXCEPT !.isShaking = FALSE, !.isRevealing = TRUE,
                        !.answer = ui.calls[a].result,
                        !.calls[a].rotationInterval = FALSE,
                        !.calls[a].pc = "revealing"]
    /\ UNCHANGED <<store, now, req, ticks>>

\* the callback of setTimeout(..., 2000)
RevealTimeout(a) ==
    /\ ui.calls[a].pc = "revealing"
    /\ ui' = [ui EXCEPT !.isRevealing = FALSE, !.isLoading = FALSE,
                        !.calls[a] = FreeCall]
    /\ UNCHANGED <<store, now, req, ticks>>

(***************************************************************************)
(* Specifications.                                                         *)
(***************************************************************************)
Init ==
    /\ store = <<>>
    /\ now = Clock0
    /\ req = [r \in Slots |-> Idle]
    /\ ticks = 0
    /\ ui = Mounted

\* The store after HISTORY_LIMIT + 1 asks of user t2_u on post t3_a, one per
\* millisecond from 1 on, each answered from the generic pool with no
\* community resolved and each completed within its millisecond.
LoadedAsks == 1..(HISTORY_LIMIT + 1)
LoadedAnswer(i) == GENERIC_ANSWERS[((i - 1) % Len(GENERIC_ANSWERS)) + 1]
LoadedStore ==
    LET qk(i) == QuestionKey("t3_a", "t2_u", i)
        ak(i) == AnswerKey("t3_a", "t2_u", i)
        ts(k) == KeyTimestamp(k)
    IN  [k \in {qk(i) : i \in LoadedAsks} \cup {ak(i) : i \in LoadedAsks} |->
            [val |-> IF k = qk(ts(k)) THEN "Will it rain?"
                     ELSE AnswerRecordJson("Will it rain?", LoadedAnswer(ts(k)),
                                           undefined),
             exp |-> <<ts(k) + HISTORY_TTL * MsPerSecond>>]]

InitLoaded ==
    /\ store = LoadedStore
    /\ now = Clock0
    /\ req = [r \in Slots |-> Idle]
    /\ ticks = 0
    /\ ui = Mounted

Next ==
    \/ \E r \in Slots : AskBegin(r)
    \/ \E r \in Slots : SubredditBegin(r)
    \/ \E r \in Slots : HistoryBegin(r)
    \/ \E r \in Slots : GetSubredditInfo(r)
    \/ \E r \in Slots : AskSetCache(r)
    \/ \E r \in Slots : AskExpireCache(r)
    \/ \E r \in Slots : AskSetQuestion(r)
    \/ \E r \in Slots : AskExpireQuestion(r)
    \/ \E r \in Slots : AskSetAnswer(r)
    \/ \E r \in Slots : AskExpireAnswer(r)
    \/ \E r \in Slots : HistoryKeys(r)
    \/ \E r \in Slots : HistoryGet(r)
    \/ Tick

Spec == Init /\ [][Next]_vars

\* each awaited store or directory call of the request in slot r returns or
\* throws
Step(r) ==
    \/ GetSubredditInfo(r)
    \/ AskSetCache(r)
    \/ AskExpireCache(r)
    \/ AskSetQuestion(r)
    \/ AskExpireQuestion(r)
    \/ AskSetAnswer(r)
    \/ AskExpireAnswer(r)
    \/ HistoryKeys(r)
    \/ HistoryGet(r)

\* The store after two asks of user t2_u on post t3_a, as in LoadedStore.
LiveAsks == 1..2
LiveStore == [k \in {x \in DOMAIN LoadedStore : KeyTimestamp(x) \in LiveAsks} |->
                 LoadedStore[k]]

InitLive ==
    /\ store = LiveStore
    /\ now = Clock0
    /\ req = [r \in Slots |-> Idle]
    /\ ticks = 0
    /\ ui = Mounted

\* the three endpoints, over a clock that stands still
NextLive ==
    \/ \E r \in Slots : AskBegin(r)
    \/ \E r \in Slots : SubredditBegin(r)
    \/ \E r \in Slots : HistoryBegin(r)
    \/ \E r \in Slots : Step(r)

\* a step of the request in slot r: every awaited call adds to its log
Advanced(r) == Len(req'[r].log) > Len(req[r].log)

\* No awaited call stays pending for ever: weak fairness of Step(r) for each
\* slot, WF_vars(Step(r)), written out.  Step(r) is enabled exactly while the
\* request of slot r is in flight, and a step of NextLive is a Step(r) step
\* exactly when it adds to the log of slot r.
AwaitsSettle ==
    \A r \in Slots : []<>(~InFlight(r)) \/ []<><<Advanced(r)>>_vars

SpecLive == InitLive /\ [][NextLive]_vars /\ AwaitsSettle

\* the user and the client on their own: every fetch settles and every
\* timer fires
NextClient ==
    \/ ChangeQuestion
    \/ handleKeyPress
    \/ ClickAsk
    \/ ClickBall
    \/ \E a \in AskCalls : FetchSettles(a)
    \/ \E a \in AskCalls : ShakeTimeout(a)
    \/ \E a \in AskCalls : RevealTimeout(a)

ClientSpec ==
    /\ Init /\ [][NextClient]_vars
    /\ \A a \in AskCalls :
          /\ WF_vars(FetchSettles(a))
          /\ WF_vars(ShakeTimeout(a))
          /\ WF_vars(RevealTimeout(a))

\* asks only, from the empty store
NextAsks ==
    \/ \E r \in Slots : AskBegin(r)
    \/ \E r \in Slots : GetSubredditInfo(r)
    \/ \E r \in Slots : AskSetCache(r)
    \/ \E r \in Slots : AskExpireCache(r)
    \/ \E r \in Slots : AskSetQuestion(r)
    \/ \E r \in Slots : AskExpireQuestion(r)
    \/ \E r \in Slots : AskSetAnswer(r)
    \/ \E r \in Slots : AskExpireAnswer(r)
    \/ Tick

SpecAsks == Init /\ [][NextAsks]_vars

\* history retrievals and the clock over a store that already holds more
\* Answer Records of one user than a history response carries
NextHistory ==
    \/ \E r \in Slots : HistoryBegin(r)
    \/ \E r \in Slots : HistoryKeys(r)
    \/ \E r \in Slots : HistoryGet(r)
    \/ Tick

SpecLoaded == InitLoaded /\ [][NextHistory]_vars

\* asks and history retrievals over that store
SpecLoadedAsks == InitLoaded /\ [][Next]_vars

\* A store in which one Answer Record of user t2_u holds a text that is not
\* the JSON of an object (the tail of the value is missing); the records on
\* both sides of it are whole and none has a TTL.  The store is a durable
\* service outside the program, and redis.get returns whatever it holds.
PartialRecord ==
    LET whole == AnswerRecordJson("Will it rain?", LoadedAnswer(2), undefined)
    IN  SubSeq(whole, 1, Len(whole) - 5)

CorruptStore ==
    LET ak(i) == AnswerKey("t3_a", "t2_u", i)
    IN  [k \in {ak(1), ak(2), ak(3)} |->
            [val |-> IF k = ak(2) THEN PartialRecord
                     ELSE AnswerRecordJson("Will it rain?",
                                           LoadedAnswer(KeyTimestamp(k)),
                                           undefined),
             exp |-> <<>>]]

InitCorrupt ==
    /\ store = CorruptStore
    /\ now = Clock0
    /\ req = [r \in Slots |-> Idle]
    /\ ticks = 0
    /\ ui = Mounted

SpecCorrupt == InitCorrupt /\ [][NextHistory]_vars

\* The store after asks of several (community id, user id) pairs, among them
\* pairs whose ids extend the ids of another pair: <<post id, user id, clock>>
\* of each ask, each answered from the generic pool and completed within its
\* millisecond.  The question of a record names the pair that asked it.
SharedAsks ==
    { <<"t3_a", "t2_u", 1>>, <<"t3_a", "t2_v", 2>>, <<"t3_a", "t2_uv", 3>>,
      <<"t3_ab", "t2_u", 4>>, <<"t3_a", "t2_u", 5>> }

SharedQuestion(postId, userId) == "Asked by " \o userId \o " on " \o postId \o "?"

SharedStore ==
    LET qk(a) == QuestionKey(a[1], a[2], a[3])
        ak(a) == AnswerKey(a[1], a[2], a[3])
        asked(k) == CHOOSE a \in SharedAsks : k \in {qk(a), ak(a)}
    IN  [k \in {qk(a) : a \in SharedAsks} \cup {ak(a) : a \in SharedAsks} |->
            LET a == asked(k)
            IN  [val |-> IF k = qk(a) THEN SharedQuestion(a[1], a[2])
                         ELSE AnswerRecordJson(SharedQuestion(a[1], a[2]),
                                               LoadedAnswer(a[3]), undefined),
                 exp |-> <<a[3] + HISTORY_TTL * MsPerSecond>>]]

InitShared ==
    /\ store = SharedStore
    /\ now = Clock0
    /\ req = [r \in Slots |-> Idle]
    /\ ticks = 0
    /\ ui = Mounted

SpecShared == InitShared /\ [][Next]_vars

\* The pool builder on its own: an accepted ask at the point where
\* getSubredditInfo has returned, with null or one of the subreddit infos of
\* PoolInfos; the subscriber counts lie on both sides of each threshold and
\* the rule lists are absent, empty and non-empty.
PoolSubscribers ==
    { undefined, Some(0), Some(1), Some(999), Some(1000), Some(1001),
      Some(1999), Some(2000), Some(99999), Some(100000), Some(100001),
      Some(150000) }

PoolRules ==
    { undefined, Some(<<>>),
      Some(<< [shortName |-> "Be kind", description |-> ""] >>),
      Some(<< [shortName |-> "Be kind", description |-> ""],
              [shortName |-> "Rule", description |-> "No spam"] >>) }

\* the community names, the empty name among them
PoolNames == {"magic8", ""}

PoolInfos ==
    { [name |-> name, displayName |-> name,
       description |-> undefined, subscribers |-> subscribers,
       rules |-> rules, flairEnabled |-> FALSE] :
         name \in PoolNames, subscribers \in PoolSubscribers,
         rules \in PoolRules }

\* what getSubredditInfo can return: null, or a subreddit info
PoolMetadata == {undefined} \cup {Some(info) : info \in PoolInfos}

AskEnrichedWith(r) ==
    /\ CanBegin(r)
    /\ \E info \in PoolMetadata, rnd \in RandomNumerators :
        LET rq == Incoming("ask", Some("t3_a"), Some("t2_u"),
                           Some("Will it rain?"))
        IN  req' = [req EXCEPT ![r] = AskEnriched(rq, info, rnd, now)]
    /\ UNCHANGED <<store, now, ticks, ui>>

NextPool == \E r \in Slots : AskEnrichedWith(r)

PoolSpec == Init /\ [][NextPool]_vars


(***************************************************************************)
(* Vocabulary of the properties.                                           *)
(***************************************************************************)
Responded(r) == req[r].response # undefined
Response(r) == Val(req[r].response)
IsAsk(r) == req[r].kind = "ask"
IsHistory(r) == req[r].kind = "history"
Succeeded(r) == Responded(r) /\ Response(r).status = "success"

\* a question that is absent, empty or made of whitespace only
Blank(question) ==
    \/ question = undefined
    \/ \A i \in 1..Len(Val(question)) : IsWhitespace(Ch(Val(question), i))

IsCacheKey(key) == GlobMatch("subreddit_info:*", key)
IsHistoryKey(key) == GlobMatch("question:*", key) \/ GlobMatch("answer:*", key)

\* the calls of request r that threw
Thrown(r) == {i \in 1..Len(req[r].log) : ~req[r].log[i].ok}
DirectoryCalls(r) ==
    {i \in 1..Len(req[r].log) : req[r].log[i].call = "getSubredditInfo"}
RetentionMs == HISTORY_TTL * MsPerSecond

(***************************************************************************)
(* C1.  POST /api/ask answers 400 exactly when a precondition fails, with  *)
(* the message of the first failed one in the order community id, user id, *)
(* question: 'postId is required' when the community id is missing,        *)
(* 'Must be logged in' when only the user id is missing, 'Question is      *)
(* required' when both ids are present and the question is absent, empty   *)
(* or whitespace only.  An accepted request never answers 400.             *)
(***************************************************************************)
C1_Expected(rq) ==
    IF rq.postId = undefined THEN Some("postId is required")
    ELSE IF rq.userId = undefined THEN Some("Must be logged in")
    ELSE IF Blank(rq.question) THEN Some("Question is required")
    ELSE undefined

C1_AskRejections ==
    \A r \in Slots : IsAsk(r) =>
        LET expected == C1_Expected(req[r])
        IN  /\ expected # undefined =>
                /\ Responded(r)
                /\ Response(r).code = 400
                /\ Response(r).status = "error"
                /\ Response(r).message = expected
            /\ expected = undefined => (Responded(r) => Response(r).code # 400)

C1_Witness ==
    /\ IsAsk(1) /\ req[1].postId # undefined /\ req[1].userId # undefined
    /\ req[1].question = Some(" \t")
    /\ Responded(1) /\ Response(1).message = Some("Question is required")
    /\ IsAsk(2) /\ req[2].postId # undefined /\ req[2].userId = undefined
    /\ Responded(2) /\ Response(2).message = Some("Must be logged in")

(***************************************************************************)
(* C2.  The answer of every successful POST /api/ask belongs to the pool   *)
(* built from the metadata the same request resolved: the 20 generic       *)
(* phrases when it resolved none, the community pool of that snapshot      *)
(* otherwise.                                                              *)
(***************************************************************************)
C2_AnswerFromPool ==
    \A r \in Slots : IsAsk(r) /\ Succeeded(r) =>
        LET info == req[r].subredditInfo
            answer == Val(Response(r).answer)
        IN  IF info = undefined
            THEN Len(GENERIC_ANSWERS) = 20 /\ answer \in Range(GENERIC_ANSWERS)
            ELSE \E rnd \in RandomNumerators :
                    answer \in Range(generateCommunityAnswers(Val(info), rnd))

C2_Witness ==
    \E r \in Slots :
        /\ IsAsk(r) /\ Succeeded(r)
        /\ req[r].subredditInfo # undefined
        /\ Val(Response(r).answer) \notin Range(GENERIC_ANSWERS)

(***************************************************************************)
(* C3.  A set or expire of the Question Record or of the Answer Record     *)
(* that throws does not keep POST /api/ask from answering: the request     *)
(* still ends in a success response that carries an answer.                *)
(***************************************************************************)
C3_HistoryWriteFailureStillAnswers ==
    \A r \in Slots :
        /\ IsAsk(r) /\ Responded(r)
        /\ \E i \in Thrown(r) : IsHistoryKey(req[r].log[i].key)
        => /\ Response(r).status = "success"
           /\ Response(r).answer # undefined

(***************************************************************************)
(* C4.  Two asks of the same community id and user id that were in flight  *)
(* together and read the same clock value leave two distinct Answer        *)
(* Records in the store.                                                   *)
(***************************************************************************)
C4_ConcurrentAsksTwoRecords ==
    \A r1, r2 \in Slots :
        /\ r1 # r2
        /\ IsAsk(r1) /\ Succeeded(r1) /\ req[r1].overlapped
        /\ IsAsk(r2) /\ Succeeded(r2) /\ req[r2].overlapped
        /\ req[r1].postId = req[r2].postId
        /\ req[r1].userId = req[r2].userId
        /\ KeyTimestamp(req[r1].answerKey) = KeyTimestamp(req[r2].answerKey)
        /\ ticks = 0
        => Cardinality(StoreKeys(store,
               HistoryPattern(Val(req[r1].postId), Val(req[r1].userId)))) >= 2

(***************************************************************************)
(* C5.  Question Records and Answer Records are immutable: no step changes *)
(* the value stored under a key that stays in the store.                   *)
(***************************************************************************)
C5_RecordsImmutable ==
    [][\A k \in DOMAIN store \cap DOMAIN store' :
          IsHistoryKey(k) => store'[k].val = store[k].val]_vars

(***************************************************************************)
(* C6.  A request that resolves metadata while a fresh cache entry of the  *)
(* community is in the store makes no call to the external directory.      *)
(***************************************************************************)
C6_FreshCacheSkipsDirectory ==
    \A r \in Slots : req[r].cacheFresh => DirectoryCalls(r) = {}

(***************************************************************************)
(* C7.  A directory lookup that throws is never surfaced by POST /api/ask: *)
(* the metadata is absent, the pool is the 20 generic phrases, and the     *)
(* request answers 200 success with a generic answer and no subreddit      *)
(* field.                                                                  *)
(***************************************************************************)
C7_DirectoryFailureNotSurfaced ==
    \A r \in Slots :
        IsAsk(r) /\ (\E i \in Thrown(r) : i \in DirectoryCalls(r)) =>
            /\ req[r].subredditInfo = undefined
            /\ req[r].availableAnswers = GENERIC_ANSWERS
            /\ Len(GENERIC_ANSWERS) = 20
            /\ Responded(r) =>
                /\ Response(r).code = 200
                /\ Response(r).status = "success"
                /\ Response(r).answer # undefined
                /\ Val(Response(r).answer) \in Range(GENERIC_ANSWERS)
                /\ Response(r).subreddit = undefined

(***************************************************************************)
(* C8.  A set or expire of the metadata cache entry that throws does not   *)
(* fail the request in progress: POST /api/ask still ends in a success     *)
(* response that carries an answer.                                        *)
(***************************************************************************)
C8_CacheWriteFailureStillAnswers ==
    \A r \in Slots :
        /\ IsAsk(r) /\ Responded(r)
        /\ \E i \in Thrown(r) : IsCacheKey(req[r].log[i].key)
        => /\ Response(r).status = "success"
           /\ Response(r).answer # undefined

(***************************************************************************)
(* C9.  GET /api/history returns no entry older than the retention window: *)
(* whenever a read adds an entry to the history, the entry's timestamp is  *)
(* at least the clock at that read minus 24 hours.                         *)
(***************************************************************************)
C9_HistoryWithinRetention ==
    [][\A r \in Slots :
          IsHistory(r) /\ Len(req'[r].history) > Len(req[r].history) =>
              req'[r].history[Len(req'[r].history)].timestamp
                  >= now - RetentionMs]_vars

(***************************************************************************)
(* C10.  GET /api/history returns at most 10 entries, however many Answer  *)
(* Records the community id and user id have.                              *)
(***************************************************************************)
C10_HistoryAtMostLimit ==
    \A r \in Slots : IsHistory(r) /\ Succeeded(r) =>
        Len(Val(Response(r).history)) <= 10

C10_Witness ==
    \E r \in Slots :
        /\ IsHistory(r) /\ Succeeded(r)
        /\ Len(Val(Response(r).history)) = 10
        /\ Cardinality(StoreKeys(store,
               HistoryPattern(Val(req[r].postId), Val(req[r].userId)))) > 10

(***************************************************************************)
(* Vocabulary of the history properties.                                   *)
(***************************************************************************)
\* the timestamps of the Answer Records the store holds for a pair
AnswerTimestamps(postId, userId) ==
    {KeyTimestamp(k) : k \in StoreKeys(store, HistoryPattern(postId, userId))}

\* the n greatest members of S
Greatest(S, n) == {t \in S : Cardinality({o \in S : o > t}) < n}

\* the reads of request r that returned / that threw
ReturnedGets(r) ==
    {i \in 1..Len(req[r].log) : req[r].log[i].call = "get" /\ req[r].log[i].ok}
ThrownGets(r) == {i \in Thrown(r) : req[r].log[i].call = "get"}

\* the entries of a successful history response
Entries(r) == Val(Response(r).history)

(***************************************************************************)
(* C11.  When the store holds more than 10 unexpired Answer Records of a   *)
(* pair, a successful GET /api/history of the pair returns exactly the 10  *)
(* records with the greatest timestamps, whatever the order of the scan.   *)
(***************************************************************************)
C11_HistoryNewestTen ==
    \A r \in Slots :
        IsHistory(r) /\ Succeeded(r) =>
            LET ts == AnswerTimestamps(Val(req[r].postId), Val(req[r].userId))
            IN  Cardinality(ts) > HISTORY_LIMIT =>
                    {e.timestamp : e \in Range(Entries(r))}
                        = Greatest(ts, HISTORY_LIMIT)

(***************************************************************************)
(* C12.  The entries of a successful GET /api/history come newest first:   *)
(* timestamps never increase along the list, and no two entries share a    *)
(* timestamp, so that the timestamps alone fix the order.                  *)
(***************************************************************************)
C12_HistoryNewestFirst ==
    \A r \in Slots :
        IsHistory(r) /\ Succeeded(r) =>
            \A i, j \in 1..Len(Entries(r)) :
                i < j => Entries(r)[i].timestamp > Entries(r)[j].timestamp

\* a response of several entries whose keys were enumerated oldest first
C12_Witness ==
    \E r \in Slots :
        /\ IsHistory(r) /\ Succeeded(r)
        /\ Len(Entries(r)) >= 2
        /\ Len(req[r].keys) >= 2
        /\ KeyTimestamp(req[r].keys[1]) < KeyTimestamp(req[r].keys[2])

(***************************************************************************)
(* C13.  Round trip: once an ask has written its Answer Record, a history  *)
(* retrieval of the same pair that starts after the ask has ended, while   *)
(* the record is in the store, returns an entry with the record's question *)
(* text, answer text and key timestamp, however many records of the pair   *)
(* the store already held.                                                 *)
(***************************************************************************)
C13_AskThenHistoryRoundTrip ==
    \A a, r \in Slots :
        /\ a < r /\ IsAsk(a) /\ IsHistory(r) /\ ~req[r].overlapped
        /\ Succeeded(r)
        /\ req[a].postId = req[r].postId /\ req[a].userId = req[r].userId
        /\ \E i \in 1..Len(req[a].log) :
              req[a].log[i] = [call |-> "set", key |-> req[a].answerKey,
                               ok |-> TRUE]
        /\ req[a].answerKey \in DOMAIN store
        => \E i \in 1..Len(Entries(r)) :
              Entries(r)[i] =
                  [question |-> Some(Trim(Val(req[a].question))),
                   answer |-> Some(req[a].answer),
                   timestamp |-> KeyTimestamp(req[a].answerKey)]

(***************************************************************************)
(* C15.  When a read of GET /api/history has found its record gone (the    *)
(* record expired after the key scan), the request still ends in a success *)
(* response, which carries the entries that were read.                     *)
(***************************************************************************)
C15_ExpiredRecordLeftOut ==
    \A r \in Slots :
        /\ IsHistory(r) /\ Responded(r)
        /\ Cardinality(ReturnedGets(r)) > Len(req[r].history)
        => /\ Succeeded(r)
           /\ Len(Entries(r)) = Len(req[r].history)

(***************************************************************************)
(* C16.  A redis.get that throws for one key of the history scan is not    *)
(* fatal: GET /api/history still ends in a success response.               *)
(***************************************************************************)
C16_ReadFailureNotFatal ==
    \A r \in Slots :
        IsHistory(r) /\ Responded(r) /\ ThrownGets(r) # {} => Succeeded(r)

C17_FromStoredAsk(e, postId, userId) ==
    \E a \in SharedAsks :
        /\ a[1] = postId /\ a[2] = userId /\ a[3] = e.timestamp
        /\ e.question = Some(SharedQuestion(postId, userId))
        /\ e.answer = Some(LoadedAnswer(a[3]))

\* entry e is the record of the ask in some slot, made with the pair
C17_FromAskInSlot(e, postId, userId) ==
    \E a \in Slots :
        /\ IsAsk(a)
        /\ req[a].postId = Some(postId) /\ req[a].userId = Some(userId)
        /\ req[a].answerKey = AnswerKey(postId, userId, e.timestamp)
        /\ e.question = Some(Trim(Val(req[a].question)))
        /\ e.answer = Some(req[a].answer)

C17_HistoryIsolated ==
    \A r \in Slots :
        IsHistory(r) /\ req[r].pc \in {"get", "done"} /\ ~Falsy(req[r].userId)
                     /\ ~Falsy(req[r].postId) =>
            LET postId == Val(req[r].postId)
                userId == Val(req[r].userId)
            IN  /\ \A i \in 1..Len(req[r].keys) :
                      req[r].keys[i] =
                          AnswerKey(postId, userId, KeyTimestamp(req[r].keys[i]))
                /\ \A i \in 1..Len(req[r].history) :
                      \/ C17_FromStoredAsk(req[r].history[i], postId, userId)
                      \/ C17_FromAskInSlot(req[r].history[i], postId, userId)
                /\ Succeeded(r) =>
                      \A i \in 1..Len(Entries(r)) :
                          \/ C17_FromStoredAsk(Entries(r)[i], postId, userId)
                          \/ C17_FromAskInSlot(Entries(r)[i], postId, userId)

\* user t2_u is answered its own two records while the store holds the
\* record that an ask of user t2_v has just written
C17_Witness ==
    \E a, r \in Slots :
        /\ IsAsk(a) /\ Succeeded(a) /\ req[a].userId = Some("t2_v")
        /\ req[a].answerKey \in DOMAIN store
        /\ IsHistory(r) /\ Succeeded(r) /\ req[r].userId = Some("t2_u")
        /\ Len(Entries(r)) = 2

(***************************************************************************)
(* C18.  A POST /api/ask or GET /api/history that is rejected with 400 has *)
(* made no store write, no store read and no directory call, and makes     *)
(* none after the response.                                                *)
(***************************************************************************)
C18_RejectionMakesNoCall ==
    \A r \in Slots :
        /\ IsAsk(r) \/ IsHistory(r)
        /\ Responded(r) /\ Response(r).code = 400
        => req[r].log = <<>> /\ req[r].pc = "done"

\* a rejected ask and a rejected history retrieval, with the clock advancing
\* in between or afterwards
C18_Witness ==
    \E a, h \in Slots :
        /\ IsAsk(a) /\ Responded(a) /\ Response(a).code = 400
        /\ IsHistory(h) /\ Responded(h) /\ Response(h).code = 400
        /\ ticks > 0

\* the writes of history records that request r has completed
HistoryWrites(r) ==
    {i \in 1..Len(req[r].log) :
        /\ req[r].log[i].call = "set" /\ req[r].log[i].ok
        /\ IsHistoryKey(req[r].log[i].key)}

(***************************************************************************)
(* C19.  An accepted POST /api/ask goes through Enriching, Selecting,      *)
(* Persisting, Responding in that order: metadata has been resolved and    *)
(* the answer has been drawn before any Question Record or Answer Record   *)
(* is written, and both records have been written before the success       *)
(* response is sent.                                                       *)
(***************************************************************************)
C19_PhasesInOrder ==
    \A r \in Slots :
        IsAsk(r) =>
            /\ HistoryWrites(r) # {} =>
                  /\ DirectoryCalls(r) # {}
                  /\ req[r].answer # ""
            /\ Succeeded(r) =>
                  /\ \E i \in HistoryWrites(r) :
                        req[r].log[i].key = req[r].questionKey
                  /\ \E i \in HistoryWrites(r) :
                        req[r].log[i].key = req[r].answerKey

(***************************************************************************)
(* Vocabulary of the pool properties.                                      *)
(***************************************************************************)
\* text sub occurs in text s
Contains(s, sub) ==
    \E i \in 1..(Len(s) - Len(sub) + 1) : SubSeq(s, i, i + Len(sub) - 1) = sub

\* the request in slot r has built a community pool
PoolBuilt(r) == IsAsk(r) /\ req[r].subredditInfo # undefined

\* the positions of the subscriber-count phrases in a pool: the phrases that
\* speak of members or users
BonusPhrases(pool) ==
    {i \in 1..Len(pool) :
        Contains(pool[i], "members") \/ Contains(pool[i], "users")}

(***************************************************************************)
(* C20.  The subscriber-count phrases of the community pool: none for a    *)
(* count that is absent, 0 or at most 1000; exactly one for a count in     *)
(* 1001..100000; exactly two for a count of 100001 or more; and each       *)
(* phrase shows floor(count / 1000) followed by k.                         *)
(***************************************************************************)
C20_ExpectedBonus(subscribers) ==
    IF subscribers = undefined THEN 0
    ELSE IF Val(subscribers) <= 1000 THEN 0
    ELSE IF Val(subscribers) <= 100000 THEN 1
    ELSE 2

C20_SubscriberBonusBoundaries ==
    \A r \in Slots :
        PoolBuilt(r) =>
            LET subscribers == Val(req[r].subredditInfo).subscribers
                pool == req[r].availableAnswers
            IN  /\ Cardinality(BonusPhrases(pool)) = C20_ExpectedBonus(subscribers)
                /\ \A i \in BonusPhrases(pool) :
                      \/ Contains(pool[i],
                            " " \o ToString(Val(subscribers) \div 1000) \o "k ")
                      \/ SubSeq(pool[i], 1,
                                Len(ToString(Val(subscribers) \div 1000)) + 2)
                            = ToString(Val(subscribers) \div 1000) \o "k "

\* pools on the boundaries: 100000 subscribers with one phrase, next to 1000
\* subscribers with none
C20_Witness ==
    \E r, o \in Slots :
        /\ PoolBuilt(r) /\ PoolBuilt(o)
        /\ Val(req[r].subredditInfo).subscribers = Some(100000)
        /\ Cardinality(BonusPhrases(req[r].availableAnswers)) = 1
        /\ Val(req[o].subredditInfo).subscribers = Some(1000)
        /\ BonusPhrases(req[o].availableAnswers) = {}

\* the request in slot r has its answer pool and has not ended
PoolReady(r) ==
    /\ IsAsk(r)
    /\ req[r].pc \in {"setCache", "expireCache", "setQuestion",
                      "expireQuestion", "setAnswer", "expireAnswer"}

(***************************************************************************)
(* C21.  The answer pool of a request has at least one element and holds   *)
(* non-empty strings only, whatever the metadata: absent, or present with  *)
(* any name (the empty one too), subscriber count and rule list.           *)
(***************************************************************************)
C21_PoolNonEmpty ==
    \A r \in Slots :
        PoolReady(r) =>
            /\ Len(req[r].availableAnswers) >= 1
            /\ \A i \in 1..Len(req[r].availableAnswers) :
                  Len(req[r].availableAnswers[i]) >= 1

\* a pool built without metadata next to one built for the empty name with an
\* empty rule list
C21_Witness ==
    \E r, o \in Slots :
        /\ PoolReady(r) /\ req[r].subredditInfo = undefined
        /\ PoolReady(o) /\ req[o].subredditInfo # undefined
        /\ Val(req[o].subredditInfo).name = ""
        /\ Val(req[o].subredditInfo).rules = Some(<<>>)

IsSubreddit(r) == req[r].kind = "subreddit"

(***************************************************************************)
(* C23.  GET /api/subreddit with a community id answers 200 success: with  *)
(* the subreddit metadata when the directory lookups resolved, with no     *)
(* subreddit field when a lookup threw, and never with an error.  Without  *)
(* a community id it answers 400 'postId is required' and has not called   *)
(* the directory.                                                          *)
(***************************************************************************)
C23_SubredditEndpoint ==
    \A r \in Slots :
        IsSubreddit(r) /\ Responded(r) =>
            IF req[r].postId = undefined
            THEN /\ Response(r).code = 400
                 /\ Response(r).status = "error"
                 /\ Response(r).message = Some("postId is required")
                 /\ DirectoryCalls(r) = {}
            ELSE /\ Response(r).code = 200
                 /\ Response(r).status = "success"
                 /\ Cardinality(DirectoryCalls(r)) = 1
                 /\ \A i \in DirectoryCalls(r) :
                       IF req[r].log[i].ok
                       THEN /\ Response(r).subreddit # undefined
                            /\ Val(Response(r).subreddit).name \in
                                   {d.name : d \in DirectorySubreddits}
                       ELSE Response(r).subreddit = undefined

\* one retrieval answered without metadata after a lookup that threw, another
\* answered with the metadata
C23_Witness ==
    \E r, o \in Slots :
        /\ IsSubreddit(r) /\ Succeeded(r) /\ Thrown(r) # {}
        /\ Response(r).subreddit = undefined
        /\ IsSubreddit(o) /\ Succeeded(o) /\ Response(o).subreddit # undefined

\* request r has completed the redis.set of key
HasSet(r, key) ==
    \E i \in 1..Len(req[r].log) :
        req[r].log[i] = [call |-> "set", key |-> key, ok |-> TRUE]

(***************************************************************************)
(* C24.  The Answer Record of an ask is keyed with the timestamp of the    *)
(* Question Record the same request wrote before it.                       *)
(***************************************************************************)
C24_AnswerKeySharesQuestionTimestamp ==
    \A r \in Slots :
        IsAsk(r) /\ HasSet(r, req[r].answerKey) =>
            /\ HasSet(r, req[r].questionKey)
            /\ KeyTimestamp(req[r].answerKey) = KeyTimestamp(req[r].questionKey)

(***************************************************************************)
(* C25.  Once the asks have ended, in success or in error, every key they  *)
(* wrote that is still in the store carries its TTL: 3600 seconds for the  *)
(* metadata cache entry, 86400 seconds for a history record.               *)
(***************************************************************************)
C25_EveryKeyHasTtl ==
    (\A r \in Slots : ~InFlight(r)) =>
        \A k \in DOMAIN store :
            /\ store[k].exp # <<>>
            /\ \E t \in Clock0..now :
                  store[k].exp[1] =
                      t + MsPerSecond *
                            (IF IsCacheKey(k) THEN CACHE_TTL ELSE HISTORY_TTL)

(***************************************************************************)
(* C26.  Every Answer Record in the store is the record of one single      *)
(* request: a step that creates the record or changes its value leaves     *)
(* under the key the trimmed question and the selected answer of one ask   *)
(* that has written that key (a record changes in no other way, and an ask *)
(* never changes its question or its answer afterwards), and an ask that   *)
(* answers with success returns its selected answer.                       *)
(***************************************************************************)
\* the record under key k of store st is the record of one request of rqs
C26_RecordOfOneRequest(st, rqs, k) ==
    \E parsed \in {JsonParse(st[k].val)} :
        /\ parsed.ok
        /\ \E r \in Slots :
              /\ rqs[r].kind = "ask" /\ rqs[r].answerKey = k
              /\ \E i \in 1..Len(rqs[r].log) :
                    rqs[r].log[i] = [call |-> "set", key |-> k, ok |-> TRUE]
              /\ JsonGet(parsed.members, "question")
                    = Some(Trim(Val(rqs[r].question)))
              /\ JsonGet(parsed.members, "answer") = Some(rqs[r].answer)

C26_AnswerRecordsWellFormed ==
    [][/\ \A k \in DOMAIN store' :
             /\ GlobMatch("answer:*", k)
             /\ k \notin DOMAIN store \/ store'[k].val # store[k].val
             => C26_RecordOfOneRequest(store', req', k)
       /\ \A r \in Slots :
             /\ req'[r].kind = "ask" /\ req'[r].response # undefined
             /\ Val(req'[r].response).status = "success"
             => /\ Val(req'[r].response).answer = Some(req'[r].answer)
                /\ req[r].answer = req'[r].answer
                /\ req[r].question = req'[r].question]_vars

\* two overlapping asks of one user have drawn different answers and both
\* have written an Answer Record
C26_Witness ==
    \E r, o \in Slots :
        /\ r # o /\ IsAsk(r) /\ IsAsk(o) /\ req[r].overlapped
        /\ req[r].userId = req[o].userId
        /\ req[r].answer # "" /\ req[o].answer # ""
        /\ req[r].answer # req[o].answer
        /\ HasSet(r, req[r].answerKey) /\ HasSet(o, req[o].answerKey)
        /\ \E k \in DOMAIN store : GlobMatch("answer:*", k)

(***************************************************************************)
(* C27.  The index drawn by an accepted ask lies in [0, pool.length): the  *)
(* ask selects an element of its pool, a non-empty string, and the 500     *)
(* response 'Failed to get answer' never occurs.                           *)
(***************************************************************************)
C27_IndexInRange ==
    \A r \in Slots :
        IsAsk(r) =>
            /\ Responded(r) =>
                  Response(r).message # Some("Failed to get answer")
            /\ req[r].pc \in {"setAnswer", "expireAnswer"} \/ Succeeded(r) =>
                  /\ req[r].answer # ""
                  /\ \E i \in 0..(Len(req[r].availableAnswers) - 1) :
                        req[r].availableAnswers[i + 1] = req[r].answer

\* an ask that drew the last index of its pool
C27_Witness ==
    \E r \in Slots :
        /\ IsAsk(r) /\ Succeeded(r)
        /\ req[r].answer = req[r].availableAnswers[Len(req[r].availableAnswers)]

\* text s starts with text pre
StartsWith(s, pre) == Len(s) >= Len(pre) /\ SubSeq(s, 1, Len(pre)) = pre

\* the positions of the rule phrases in a pool
RulePhrases(pool) ==
    {i \in 1..Len(pool) :
        StartsWith(pool[i], "Check rule ")
            \/ Contains(pool[i], " rules are clear on this")}

\* the number of rules of a subreddit info
RuleCount(info) == IF info.rules = undefined THEN 0 ELSE Len(Val(info.rules))

(***************************************************************************)
(* C28.  A community pool is, in this order: the 30 phrases templated with *)
(* the name, the subscriber phrases (0, 1 or 2), the rule phrases (0 or    *)
(* 2), and the first 5 phrases of the generic pool in their generic order; *)
(* its length is 35 plus the number of subscriber and rule phrases.        *)
(***************************************************************************)
C28_CommunityPoolLayout ==
    \A r \in Slots :
        PoolBuilt(r) =>
            LET info == Val(req[r].subredditInfo)
                pool == req[r].availableAnswers
                bonus == C20_ExpectedBonus(info.subscribers)
                ruled == IF RuleCount(info) > 0 THEN 2 ELSE 0
            IN  /\ Len(pool) = 35 + bonus + ruled
                /\ \A i \in 1..30 : Contains(pool[i], "r/" \o info.name)
                /\ BonusPhrases(pool) = 31..(30 + bonus)
                /\ RulePhrases(pool) = (31 + bonus)..(30 + bonus + ruled)
                /\ SubSeq(pool, Len(pool) - 4, Len(pool)) =
                      << "It is certain", "Reply hazy, try again",
                         "Don't count on it", "It is decidedly so",
                         "Ask again later" >>
                /\ \A i \in 1..5 : pool[Len(pool) - 5 + i] = GENERIC_ANSWERS[i]

\* the longest pool: two subscriber phrases and two rule phrases
C28_Witness ==
    \E r \in Slots :
        /\ PoolBuilt(r)
        /\ Len(req[r].availableAnswers) = 39
        /\ BonusPhrases(req[r].availableAnswers) = {31, 32}
        /\ RulePhrases(req[r].availableAnswers) = {33, 34}

(***************************************************************************)
(* C29.  The two rule phrases are in the community pool exactly when the   *)
(* rule list is non-empty, and the number N of the phrase 'Check rule N'   *)
(* satisfies 1 <= N <= rule_count.                                         *)
(***************************************************************************)
C29_RulePhrases ==
    \A r \in Slots :
        PoolBuilt(r) =>
            LET info == Val(req[r].subredditInfo)
                pool == req[r].availableAnswers
            IN  IF RuleCount(info) = 0 THEN RulePhrases(pool) = {}
                ELSE /\ Cardinality(RulePhrases(pool)) = 2
                     /\ \E i \in RulePhrases(pool), N \in 1..RuleCount(info) :
                           pool[i] = "Check rule " \o ToString(N)
                                        \o " of r/" \o info.name
                     /\ \E i \in RulePhrases(pool) :
                           pool[i] = "The r/" \o info.name
                                        \o " rules are clear on this"

\* of two rules, the first is named in one pool and the second in another
C29_Witness ==
    \E r, o \in Slots :
        /\ PoolBuilt(r) /\ PoolBuilt(o)
        /\ RuleCount(Val(req[r].subredditInfo)) = 2
        /\ RuleCount(Val(req[o].subredditInfo)) = 2
        /\ \E i \in RulePhrases(req[r].availableAnswers) :
              StartsWith(req[r].availableAnswers[i], "Check rule 1 ")
        /\ \E i \in RulePhrases(req[o].availableAnswers) :
              StartsWith(req[o].availableAnswers[i], "Check rule 2 ")

(***************************************************************************)
(* C30.  The read endpoints leave the store unchanged: a step of a GET     *)
(* /api/history or GET /api/subreddit request creates, overwrites, deletes *)
(* and re-expires no key, whether the request succeeds or fails; the store *)
(* changes only when a POST /api/ask completes a set or an expire and when *)
(* the clock runs a TTL out.                                               *)
(***************************************************************************)
C30_ReadsLeaveStoreUnchanged ==
    [][/\ \A r \in Slots :
             /\ req'[r].kind \in {"history", "subreddit"}
             /\ req'[r].pc # req[r].pc \/ req'[r].log # req[r].log
             => store' = store
       /\ store' # store =>
             \/ now' # now /\ req' = req
             \/ \E r \in Slots :
                   /\ req[r].kind = "ask"
                   /\ Len(req'[r].log) = Len(req[r].log) + 1
                   /\ req'[r].log[Len(req'[r].log)].call \in {"set", "expire"}
                   /\ req'[r].log[Len(req'[r].log)].ok]_vars

\* a history retrieval has returned stored records and a subreddit retrieval
\* has been answered, and the store is as it was
C30_Witness ==
    \E r, o \in Slots :
        /\ IsHistory(r) /\ Succeeded(r) /\ Len(Entries(r)) >= 1
        /\ IsSubreddit(o) /\ Succeeded(o)
        /\ store = SharedStore

(***************************************************************************)
(* C31: every request to /api/ask, /api/subreddit or /api/history whose    *)
(* awaited store and directory calls each return or throw ends with        *)
(* exactly one response sent, success or error: a request that has come in *)
(* is eventually done, a request that is done has sent one response, no    *)
(* request ever sends two, and a request that is done takes no further     *)
(* step.                                                                   *)
(***************************************************************************)
C31_ExactlyOneResponse ==
    /\ \A r \in Slots : req[r].pc # "idle" ~> req[r].pc = "done"
    /\ [](\A r \in Slots :
            /\ req[r].sent <= 1
            /\ req[r].pc = "done" => req[r].sent = 1 /\ Responded(r)
            /\ req[r].pc # "done" => req[r].sent = 0 /\ ~Responded(r))
    /\ [][\A r \in Slots : req[r].pc = "done" => req'[r] = req[r]]_vars

\* AwaitsSettle is weak fairness of Step(r): Step(r) is enabled exactly while
\* the request of slot r is in flight, and the steps that add to the log of
\* slot r are the Step(r) steps.
C31_StepEnabledWhileInFlight ==
    \A r \in Slots : InFlight(r) <=> ENABLED <<Step(r)>>_vars

C31_AdvancedIsStep ==
    [][\A r \in Slots : Advanced(r) <=> <<Step(r)>>_vars]_vars

\* an ask answered after its directory lookup and its six store calls, next
\* to a history retrieval answered after reading two records
C31_Witness ==
    \E r, o \in Slots :
        /\ IsAsk(r) /\ Succeeded(r) /\ req[r].sent = 1
        /\ Len(req[r].log) = 7
        /\ IsHistory(o) /\ Succeeded(o) /\ req[o].sent = 1
        /\ Len(Entries(o)) = 2

(***************************************************************************)
(* The client's calls of askQuestion.                                      *)
(***************************************************************************)
\* the /api/ask requests of the client that have not settled
AsksInFlight == {a \in AskCalls : ui.calls[a].pc = "fetch"}

\* this step sends an /api/ask request
AskSent == \E a \in AskCalls : ui.calls[a].pc # "fetch" /\ ui'.calls[a].pc = "fetch"

UiIdle == ~ui.isLoading /\ ~ui.isShaking /\ ~ui.isRevealing

(***************************************************************************)
(* C32: while an ask is in progress (isLoading is true) no user action,    *)
(* Enter key, Ask button or click on the ball, starts a second /api/ask    *)
(* request: no step taken while isLoading sends a request, and at most one *)
(* request of the client is in flight at any time.                         *)
(***************************************************************************)
C32_OneAskInFlight ==
    /\ [][ui.isLoading => ~AskSent]_vars
    /\ [](Cardinality(AsksInFlight) <= 1)

(***************************************************************************)
(* C33: every started ask eventually returns the UI to idle: whatever the  *)
(* outcome of its request, a call of askQuestion that has started leads to *)
(* a state in which isLoading, isShaking and isRevealing are all false and *)
(* the rotation interval of that call is cleared.                          *)
(***************************************************************************)
C33_AskReturnsToIdle ==
    \A a \in AskCalls :
        ui.calls[a].pc # "free" ~> UiIdle /\ ~ui.calls[a].rotationInterval

====
